---- MODULE Spec2Model ----
(***************************************************************************)
(* Model of price_tracker/main.py: the price extraction heuristic          *)
(* (fetch_min_price), and main(): target enumeration, sequential fetch,    *)
(* choice of the cheapest observation, load of the history file, the       *)
(* alert decision, the snapshot write and the two email sends.             *)
(***************************************************************************)
EXTENDS Integers, Sequences, FiniteSets, TLC

\* ---------------------------------------------------------------- bounds
MaxRuns == 3        \* number of runs of main() explored
MaxLen  == 2        \* matches per pass on a page given to fetch_min_price

\* ------------------------------------------------------- program constants
JunkThreshold == 40             \* "if val > 40"
BandLow       == 10             \* "10 < p"
BandHigh      == 5000           \* "p < 5000"
DefaultPrice  == 1000000000     \* last_best.get("price", 10**9)

\* ------------------------------------------------------------ Python values
None        == [t |-> "None"]
Num(n)      == [t |-> "num", v |-> n]
Str(s)      == [t |-> "str", s |-> s]
List(n)     == [t |-> "list", len |-> n]
BestKeys    == {"price", "vendor", "date", "url"}
\* a dict with (some of) the keys of a best record; absent keys hold None
Dict(ks, p, vd, d, u) ==
    [t |-> "dict", keys |-> ks, price |-> p, vendor |-> vd, date |-> d, url |-> u]
EmptyDict   == Dict({}, None, "", "", <<>>)

\* bool(v) as Python evaluates "not last_best" and "if cheapest"
Truthy(v) ==
    CASE v.t = "None" -> FALSE
      [] v.t = "num"  -> v.v # 0
      [] v.t = "str"  -> v.s # ""
      [] v.t = "list" -> v.len # 0
      [] v.t = "dict" -> v.keys # {}

\* v.get("price", default); only dicts have .get (AttributeError otherwise)
HasGet(v) == v.t = "dict"
GetPrice(v, default) == IF "price" \in v.keys THEN v.price ELSE default

\* -------------------------------------------------------------- JSON text
\* json.dumps / json.loads between Python values and the JSON document
JNull == [j |-> "null"]
DumpsValue(v) ==
    CASE v.t = "None" -> JNull
      [] v.t = "num"  -> [j |-> "number", v |-> v.v]
      [] v.t = "str"  -> [j |-> "string", s |-> v.s]
      [] v.t = "list" -> [j |-> "array", len |-> v.len]
      [] v.t = "dict" -> [j |-> "object", keys |-> v.keys,
                          price |-> IF v.price.t = "num"
                                      THEN [j |-> "number", v |-> v.price.v]
                                      ELSE IF v.price.t = "str"
                                      THEN [j |-> "string", s |-> v.price.s]
                                      ELSE JNull,
                          vendor |-> v.vendor, date |-> v.date, url |-> v.url]
LoadsValue(x) ==
    CASE x.j = "null"   -> None
      [] x.j = "number" -> Num(x.v)
      [] x.j = "string" -> Str(x.s)
      [] x.j = "array"  -> List(x.len)
      [] x.j = "object" -> Dict(x.keys,
                                IF x.price.j = "number" THEN Num(x.price.v)
                                ELSE IF x.price.j = "string" THEN Str(x.price.s)
                                ELSE None,
                                x.vendor, x.date, x.url)

DumpsResult(r) ==
    [vendor |-> r.vendor, date |-> r.date, url |-> r.url,
     minPrice |-> DumpsValue(r.minPrice)]
DumpsResults(rs) == [i \in 1..Len(rs) |-> DumpsResult(rs[i])]

\* json.dumps(history): history = {"updated_at", "latest", "best"}
DumpsHistory(h) ==
    [j |-> "object", keys |-> {"updated_at", "latest", "best"},
     updated_at |-> h.updated_at, latest |-> DumpsResults(h.latest),
     best |-> DumpsValue(h.best)]

\* ------------------------------------------------------- the history file
NoFile          == [kind |-> "missing"]
Unreadable      == [kind |-> "unreadable"]
TextFile(doc)   == [kind |-> "text", doc |-> doc]
NotJson         == [j |-> "invalid"]
\* a JSON object carrying the given keys of a history document
HistoryDoc(ks, b) ==
    [j |-> "object", keys |-> ks, updated_at |-> 0, latest |-> <<>>, best |-> b]

\* lines 104-110: last_best after the guarded load
LoadLastBest(f) ==
    IF f.kind = "missing" THEN None              \* HISTORY_PATH.exists() false
    ELSE IF f.kind = "unreadable" THEN None      \* read_text raises, caught
    ELSE IF f.doc.j = "invalid" THEN None        \* json.loads raises, caught
    ELSE IF f.doc.j # "object" THEN None         \* data.get raises, caught
    ELSE IF "best" \notin f.doc.keys THEN None   \* data.get("best") -> None
    ELSE LoadsValue(f.doc.best)

\* ------------------------------------------------------- fetch_min_price
\* A regex match's group(1) is a run of digit groups separated by commas,
\* "12,345" = <<12, 345>>; float(m.group(1).replace(",", "")) joins them.
RECURSIVE ParseAmount(_)
ParseAmount(groups) ==
    IF Len(groups) = 1 THEN groups[1]
    ELSE ParseAmount(SubSeq(groups, 1, Len(groups) - 1)) * 1000 + groups[Len(groups)]

\* the threshold test off by one: "val >= 40"
RECURSIVE ScanPass_Inclusive(_, _)
ScanPass_Inclusive(prices, matches) ==
    IF matches = <<>> THEN prices
    ELSE LET val == ParseAmount(Head(matches))
         IN  ScanPass_Inclusive(
                IF val >= JunkThreshold THEN Append(prices, val) ELSE prices,
                Tail(matches))

\* one scraping pass: for m in PRICE_RE.finditer(..): if val > 40: append
RECURSIVE ScanPass(_, _)
ScanPass(prices, matches) ==
    IF matches = <<>> THEN prices
    ELSE LET val == ParseAmount(Head(matches))
         IN  ScanPass(IF val > JunkThreshold THEN Append(prices, val) ELSE prices,
                      Tail(matches))

InBand(p) == BandLow < p /\ p < BandHigh

RECURSIVE MinOf(_)
MinOf(s) ==
    IF Len(s) = 1 THEN s[1]
    ELSE LET m == MinOf(Tail(s)) IN IF m < s[1] THEN m ELSE s[1]

\* page = [ok, frags, html]: ok FALSE when goto/locator raise; frags are the
\* matches in the candidate text nodes, html the matches in page.content()
fetch_min_price(page) ==
    IF ~page.ok THEN None
    ELSE LET pass1 == ScanPass(<<>>, page.frags)
             pass2 == IF pass1 = <<>> THEN ScanPass(pass1, page.html) ELSE pass1
             kept  == SelectSeq(pass2, InBand)
         IN  IF kept # <<>> THEN Num(MinOf(kept)) ELSE None

\* ------------------------------------------------------------ configuration
\* an entry of DATES: its text, possibly surrounded by whitespace
Entry(pad, text) == [pad |-> pad, text |-> text]
Strip(e) == e.text

\* URL templates are token sequences; "{DATE}" is the placeholder token
HasPlaceholder(tmpl) == \E i \in 1..Len(tmpl) : tmpl[i] = "{DATE}"
Format(tmpl, d) == [i \in 1..Len(tmpl) |-> IF tmpl[i] = "{DATE}" THEN d ELSE tmpl[i]]

Configs ==
    { [DATES |-> <<Entry(FALSE, "2025-09-01"), Entry(FALSE, "2025-09-02")>>,
       KLOOK_URL |-> <<"klook">>, TRIPCOM_URL |-> <<"trip?date=", "{DATE}">>,
       EMAIL_ENABLED |-> TRUE],
      [DATES |-> <<Entry(TRUE, "2025-09-01"), Entry(TRUE, "")>>,
       KLOOK_URL |-> <<"klook/", "{DATE}">>, TRIPCOM_URL |-> <<"trip?date=", "{DATE}">>,
       EMAIL_ENABLED |-> FALSE],
      [DATES |-> <<Entry(FALSE, "next friday"), Entry(FALSE, "2025-09-01")>>,
       KLOOK_URL |-> <<"klook/", "{DATE}">>, TRIPCOM_URL |-> <<>>,
       EMAIL_ENABLED |-> TRUE] }

\* lines 74-81
RECURSIVE BuildTargets(_, _, _)
BuildTargets(dates, klookUrl, tripUrl) ==
    IF dates = <<>> THEN <<>>
    ELSE LET d     == Strip(Head(dates))
             klook == IF HasPlaceholder(klookUrl) THEN Format(klookUrl, d) ELSE klookUrl
             trip  == IF tripUrl # <<>> THEN Format(tripUrl, d) ELSE <<>>
             mine  == (IF klook # <<>>
                         THEN <<[vendor |-> "KLOOK", date |-> d, url |-> klook]>>
                         ELSE <<>>)
                      \o
                      (IF trip # <<>>
                         THEN <<[vendor |-> "TRIPCOM", date |-> d, url |-> trip]>>
                         ELSE <<>>)
         IN  (IF d # "" THEN mine ELSE <<>>) \o BuildTargets(Tail(dates), klookUrl, tripUrl)

\* the comparison not strict: the last entry of minimal price wins
RECURSIVE PickCheapest_LastWins(_, _)
PickCheapest_LastWins(cheapest, rs) ==
    IF rs = <<>> THEN cheapest
    ELSE LET r == Head(rs)
             p == r.minPrice
         IN  PickCheapest_LastWins(
               IF p # None /\ (cheapest = None \/ p.v <= cheapest.price.v)
                 THEN Dict(BestKeys, p, r.vendor, r.date, r.url)
                 ELSE cheapest,
               Tail(rs))

\* lines 97-101
RECURSIVE PickCheapest(_, _)
PickCheapest(cheapest, rs) ==
    IF rs = <<>> THEN cheapest
    ELSE LET r == Head(rs)
             p == r.minPrice
         IN  PickCheapest(
               IF p # None /\ (cheapest = None \/ p.v < cheapest.price.v)
                 THEN Dict(BestKeys, p, r.vendor, r.date, r.url)
                 ELSE cheapest,
               Tail(rs))

\* lines 112-115: the comparison raises when last_best is truthy but has no
\* .get (AttributeError) or its price is not a number (TypeError)
DecisionRaises(cheapest, last_best) ==
    /\ Truthy(cheapest) /\ cheapest.price # None
    /\ Truthy(last_best)
    /\ \/ ~HasGet(last_best)
       \/ GetPrice(last_best, Num(DefaultPrice)).t # "num"

\* the comparison reversed: alert on a higher price
ShouldAlert_Reversed(cheapest, last_best) ==
    /\ Truthy(cheapest) /\ cheapest.price # None
    /\ \/ ~Truthy(last_best)
       \/ cheapest.price.v > GetPrice(last_best, Num(DefaultPrice)).v

\* the comparison not strict: alert on a tie
ShouldAlert_OnTie(cheapest, last_best) ==
    /\ Truthy(cheapest) /\ cheapest.price # None
    /\ \/ ~Truthy(last_best)
       \/ cheapest.price.v <= GetPrice(last_best, Num(DefaultPrice)).v

ShouldAlert(cheapest, last_best) ==
    /\ Truthy(cheapest) /\ cheapest.price # None
    /\ \/ ~Truthy(last_best)
       \/ cheapest.price.v < GetPrice(last_best, Num(DefaultPrice)).v

\* the default of history["best"] forgotten: no price, no best
NewBest_Forgets(cheapest, last_best, alert) ==
    IF Truthy(cheapest)
      THEN (IF alert THEN cheapest ELSE last_best)
      ELSE None

\* the best overwritten by every run that found a price
NewBest_AlwaysCheapest(cheapest, last_best, alert) ==
    IF Truthy(cheapest) THEN cheapest ELSE last_best

\* lines 120-125
NewBest(cheapest, last_best, alert) ==
    IF Truthy(cheapest)
      THEN (IF alert THEN cheapest ELSE last_best)
      ELSE last_best

\* the exception of send_email not caught
safe_send_email_Propagates(outcome) ==
    IF outcome = "raised" THEN "abort" ELSE "continue"

\* lines 152-156: the exception of send_email is caught; the caller goes on
safe_send_email(outcome) == "continue"


\* ---------------------------------------------------------------- pages
\* what the renderer serves for a target during a run
RunPages ==
    { [ok |-> FALSE, frags |-> <<>>, html |-> <<>>],
      [ok |-> TRUE,  frags |-> <<>>, html |-> <<>>],
      [ok |-> TRUE,  frags |-> << <<45>> >>, html |-> << <<90>> >>],
      [ok |-> TRUE,  frags |-> << <<38>> >>, html |-> << <<90>> >>] }

\* group(1) of the matches explored for fetch_min_price alone.  PRICE_RE
\* captures two digits with comma groups ("40", "41", "99", "12,345") or a
\* run of three or more digits, which a leading zero gives any value
\* ("005", "04999", "05000").
Matches == { <<5>>, <<40>>, <<41>>, <<99>>, <<4999>>, <<5000>>, <<12, 345>> }
MatchLists == UNION { [1..n -> Matches] : n \in 0..MaxLen }
AnyPages == [ok : BOOLEAN, frags : MatchLists, html : MatchLists]

\* ------------------------------------------------------------------ state
VARIABLES
    cfg,            \* the module-level configuration read from the environment
    file,           \* contents of HISTORY_PATH
    pc,             \* where the process is
    runs,           \* number of runs started (the clock of updated_at)
    targets,        \* main: targets
    results,        \* main: results
    cheapest,       \* main: cheapest
    last_best,      \* main: last_best
    should_alert,   \* main: should_alert
    wrote,          \* this run has written the snapshot
    mailLog,        \* this run's calls of send_email, with their outcome
    page,           \* the page last given to fetch_min_price
    price,          \* what fetch_min_price returned for it
    saved,          \* the snapshot most recently written by a run
    observed        \* every minPrice a run has recorded in "latest"

vars == <<cfg, file, pc, runs, targets, results, cheapest, last_best,
          should_alert, wrote, mailLog, page, price, saved, observed>>

NoPage == [ok |-> FALSE, frags |-> <<>>, html |-> <<>>]

Init ==
    /\ cfg \in Configs
    /\ file = NoFile
    /\ pc = "idle"
    /\ runs = 0
    /\ targets = <<>>
    /\ results = <<>>
    /\ cheapest = None
    /\ last_best = None
    /\ should_alert = FALSE
    /\ wrote = FALSE
    /\ mailLog = <<>>
    /\ page = NoPage
    /\ price = None
    /\ saved = NoFile
    /\ observed = {}

\* lines 73-87: a new process; main() builds the targets and opens the browser
StartRun ==
    /\ pc \in {"idle", "done", "aborted"}
    /\ runs < MaxRuns
    /\ runs' = runs + 1
    /\ targets' = BuildTargets(cfg.DATES, cfg.KLOOK_URL, cfg.TRIPCOM_URL)
    /\ results' = <<>>
    /\ cheapest' = None
    /\ last_best' = None
    /\ should_alert' = FALSE
    /\ wrote' = FALSE
    /\ mailLog' = <<>>
    /\ page' = NoPage
    /\ price' = None
    /\ pc' = "fetch"
    /\ UNCHANGED <<cfg, file, saved, observed>>

\* lines 88-93: one iteration of the loop over targets.  A target is only
\* built with a non-empty url (lines 78-81), so the "continue" of line 90
\* never runs and the next target is the one after the entries so far.
FetchTarget ==
    /\ pc = "fetch"
    /\ Len(results) < Len(targets)
    /\ \E pg \in RunPages :
         LET tg == targets[Len(results) + 1]
             p  == fetch_min_price(pg)
         IN  /\ page' = pg
             /\ price' = p
             /\ results' = Append(results,
                                  [vendor |-> tg.vendor, date |-> tg.date,
                                   url |-> tg.url, minPrice |-> p])
    /\ UNCHANGED <<cfg, file, pc, runs, targets, cheapest, last_best,
                   should_alert, wrote, mailLog, saved, observed>>

ObservedIn(rs) == { rs[i].minPrice.v : i \in { k \in 1..Len(rs) : rs[k].minPrice # None } }

\* lines 94-126: pick the cheapest, load the last best, decide, save
DecideAndSave ==
    /\ pc = "fetch"
    /\ Len(results) = Len(targets)
    /\ LET c  == PickCheapest(None, results)
           lb == LoadLastBest(file)
       IN  /\ cheapest' = c
           /\ last_best' = lb
           /\ IF DecisionRaises(c, lb)
                THEN /\ pc' = "aborted"
                     /\ UNCHANGED <<should_alert, file, wrote, saved, observed>>
                ELSE LET a == ShouldAlert(c, lb)
                         history == [updated_at |-> runs, latest |-> results,
                                     best |-> NewBest(c, lb, a)]
                     IN  /\ should_alert' = a
                         /\ file' = TextFile(DumpsHistory(history))
                         /\ saved' = file'
                         /\ wrote' = TRUE
                         /\ observed' = observed \cup ObservedIn(results)
                         /\ pc' = IF cfg.EMAIL_ENABLED THEN "alert" ELSE "done"
    /\ UNCHANGED <<cfg, runs, targets, results, mailLog, page, price>>

\* the alert sent whenever a price was found
AlertDue_AnyPrice(alert, c) == Truthy(c)

\* line 130: "if should_alert and cheapest"
AlertDue(alert, c) == alert /\ Truthy(c)

SendOutcomes == {"sent", "raised"}
Mail(kind, outcome) == [kind |-> kind, outcome |-> outcome]

\* lines 129-140: the alert email
SendAlert ==
    /\ pc = "alert"
    /\ IF AlertDue(should_alert, cheapest)
         THEN \E o \in SendOutcomes :
                /\ mailLog' = Append(mailLog, Mail("alert", o))
                /\ pc' = IF safe_send_email(o) = "continue" THEN "daily" ELSE "aborted"
         ELSE /\ pc' = "daily"
              /\ UNCHANGED mailLog
    /\ UNCHANGED <<cfg, file, runs, targets, results, cheapest, last_best,
                   should_alert, wrote, page, price, saved, observed>>

\* lines 142-148: the daily snapshot email
SendDaily ==
    /\ pc = "daily"
    /\ \E o \in SendOutcomes :
         /\ mailLog' = Append(mailLog, Mail("daily", o))
         /\ pc' = IF safe_send_email(o) = "continue" THEN "done" ELSE "aborted"
    /\ UNCHANGED <<cfg, file, runs, targets, results, cheapest, last_best,
                   should_alert, wrote, page, price, saved, observed>>

Next == StartRun \/ FetchTarget \/ DecideAndSave \/ SendAlert \/ SendDaily

Spec == Init /\ [][Next]_vars


\* ------------------------------------------- the environment of the file
\* what another program or a fault can leave at HISTORY_PATH between runs
AllKeys == {"updated_at", "latest", "best"}
SomeUrl == <<"klook">>
TamperedFiles ==
    { NoFile,
      Unreadable,
      TextFile(NotJson),
      TextFile([j |-> "array", len |-> 0]),
      TextFile(HistoryDoc({"updated_at", "latest"}, JNull)),
      TextFile(HistoryDoc(AllKeys, JNull)),
      TextFile(HistoryDoc(AllKeys, [j |-> "string", s |-> "cheap"])),
      TextFile(HistoryDoc(AllKeys, [j |-> "number", v |-> 0])),
      TextFile(HistoryDoc(AllKeys, DumpsValue(EmptyDict))),
      TextFile(HistoryDoc(AllKeys,
         DumpsValue(Dict(BestKeys, Str("450"), "KLOOK", "2025-09-01", SomeUrl)))),
      TextFile(HistoryDoc(AllKeys,
         DumpsValue(Dict(BestKeys, None, "KLOOK", "2025-09-01", SomeUrl)))),
      TextFile(HistoryDoc(AllKeys,
         DumpsValue(Dict(BestKeys \ {"price"}, None, "KLOOK", "2025-09-01", SomeUrl)))) }

Tamper ==
    /\ pc \in {"idle", "done", "aborted"}
    /\ runs < MaxRuns
    /\ file' \in TamperedFiles
    /\ file' # file
    /\ UNCHANGED <<cfg, pc, runs, targets, results, cheapest, last_best,
                   should_alert, wrote, mailLog, page, price, saved, observed>>

NextEnv == Next \/ Tamper

\* the runs over a tampered file are explored for the two-target configurations
EnvConfigs ==
    { c \in Configs : Len(BuildTargets(c.DATES, c.KLOOK_URL, c.TRIPCOM_URL)) <= 2 }
InitEnv == Init /\ cfg \in EnvConfigs

SpecEnv == InitEnv /\ [][NextEnv]_vars

\* ------------------------------------------ fetch_min_price on any page
DefaultConfig ==
    [DATES |-> <<Entry(FALSE, "2025-09-01"), Entry(FALSE, "2025-09-02")>>,
     KLOOK_URL |-> <<"klook">>, TRIPCOM_URL |-> <<"trip?date=", "{DATE}">>,
     EMAIL_ENABLED |-> TRUE]

InitExtract ==
    /\ cfg = DefaultConfig
    /\ file = NoFile
    /\ pc = "extract"
    /\ runs = 0
    /\ targets = <<>>
    /\ results = <<>>
    /\ cheapest = None
    /\ last_best = None
    /\ should_alert = FALSE
    /\ wrote = FALSE
    /\ mailLog = <<>>
    /\ page \in AnyPages
    /\ price = None
    /\ saved = NoFile
    /\ observed = {}

Extract ==
    /\ pc = "extract"
    /\ price' = fetch_min_price(page)
    /\ pc' = "extracted"
    /\ UNCHANGED <<cfg, file, runs, targets, results, cheapest, last_best,
                   should_alert, wrote, mailLog, page, saved, observed>>

SpecExtract == InitExtract /\ [][Extract]_vars


\* ================================================================ claims
Decided  == pc \in {"alert", "daily", "done"}
FileBest == LoadLastBest(file)
SavedBest == LoadLastBest(saved)
IsBestRecord(b) == b.t = "dict" /\ b.keys = BestKeys /\ b.price.t = "num"
RunPrices == ObservedIn(results)
RunMin == CHOOSE m \in RunPrices : \A n \in RunPrices : m <= n
Sends(kind) == Cardinality({ i \in 1..Len(mailLog) : mailLog[i].kind = kind })

\* C1 (as stated): whatever the outcome of reading the history file, from
\* one run's saved snapshot to the next run's the price of best never
\* increases and a present best never becomes absent.
C1_BestMonotoneAnyRead ==
    [][ SavedBest.t # "None" =>
          /\ SavedBest'.t # "None"
          /\ (IsBestRecord(SavedBest) /\ IsBestRecord(SavedBest')
                => SavedBest'.price.v <= SavedBest.price.v) ]_vars

\* C1 (amended): when a run finds the history file as the previous run
\* saved it, the price of the best it saves is not above the previous
\* snapshot's and a present best does not become absent.
C1_BestMonotoneWhenReadBack ==
    [][ (file = saved /\ IsBestRecord(SavedBest)) =>
          /\ IsBestRecord(SavedBest')
          /\ SavedBest'.price.v <= SavedBest.price.v ]_vars

C1_Witness ==
    /\ runs >= 2 /\ pc = "done" /\ wrote /\ file = saved
    /\ IsBestRecord(last_best) /\ should_alert
    /\ IsBestRecord(SavedBest)
    /\ SavedBest.price.v < last_best.price.v

\* C2: starting from no history file, after every run the persisted best
\* price, if present, is at most every non-none minPrice recorded in latest
\* by this run and by all earlier runs.
C2_BestIsLowestEverObserved ==
    FileBest.t # "None" =>
        /\ IsBestRecord(FileBest)
        /\ \A m \in observed : FileBest.price.v <= m

C2_Witness ==
    /\ runs >= 2 /\ pc = "done"
    /\ FileBest.t # "None"
    /\ Cardinality(observed) >= 2
    /\ RunPrices # {} /\ FileBest.price.v < RunMin

\* C3: should_alert is true exactly when the run has a cheapest observation
\* and either no previous best was loaded or the cheapest price is strictly
\* below the previous best's price; a tie never alerts.
C3_AlertIffStrictlyCheaper ==
    Decided =>
        /\ should_alert <=>
             /\ RunPrices # {}
             /\ (last_best.t = "None" \/ RunMin < last_best.price.v)
        /\ (RunPrices # {} /\ last_best.t # "None" /\ RunMin = last_best.price.v)
             => ~should_alert

C3_Witness ==
    /\ pc = "done" /\ RunPrices # {}
    /\ last_best.t # "None" /\ RunMin = last_best.price.v
    /\ ~should_alert

\* C4: the best written to the snapshot is the run's cheapest observation
\* (price, vendor, date, url) when should_alert, and the loaded best
\* unchanged otherwise, absent included.
C4_WrittenBest ==
    wrote =>
        /\ should_alert =>
             /\ FileBest = cheapest
             /\ \E i \in 1..Len(results) :
                  /\ results[i].minPrice = Num(RunMin)
                  /\ FileBest = Dict(BestKeys, Num(RunMin), results[i].vendor,
                                     results[i].date, results[i].url)
        /\ ~should_alert => FileBest = last_best
        /\ (last_best.t = "None" /\ RunPrices = {}) => FileBest.t = "None"

C4_Witness ==
    /\ wrote /\ ~should_alert
    /\ RunPrices # {} /\ IsBestRecord(last_best)
    /\ last_best.price.v < RunMin
    /\ FileBest = last_best

C4_WitnessAbsent ==
    wrote /\ runs >= 2 /\ last_best.t = "None" /\ RunPrices = {} /\ FileBest.t = "None"

\* C5: with notifications enabled an alert send is attempted exactly when
\* should_alert, and exactly one daily-snapshot send is attempted whatever
\* should_alert and whether or not a price was found; with notifications
\* disabled nothing is sent.
C5_EmailDispatch ==
    /\ ~cfg.EMAIL_ENABLED => mailLog = <<>>
    /\ Sends("alert") <= 1 /\ Sends("daily") <= 1
    /\ Sends("alert") = 1 => should_alert
    /\ (pc = "done" /\ cfg.EMAIL_ENABLED) =>
          /\ Sends("alert") = (IF should_alert THEN 1 ELSE 0)
          /\ Sends("daily") = 1

C5_Witness ==
    /\ pc = "done" /\ cfg.EMAIL_ENABLED
    /\ RunPrices = {} /\ ~should_alert
    /\ mailLog # <<>> /\ Sends("daily") = 1 /\ Sends("alert") = 0

\* C6: a failed fetch never aborts the run or skips a target: every target
\* yields one entry of latest, in target order, with minPrice none for a
\* failed target, and the cheapest is the first entry of minimal price
\* among the entries that have one.
SameTarget(r, tg) == r.vendor = tg.vendor /\ r.date = tg.date /\ r.url = tg.url
FirstMinimal(i) ==
    /\ results[i].minPrice = Num(RunMin)
    /\ \A k \in 1..(i - 1) : results[k].minPrice # Num(RunMin)
C6_FetchFailureIsLocal ==
    /\ pc # "aborted"
    /\ Len(results) <= Len(targets)
    /\ \A i \in 1..Len(results) : SameTarget(results[i], targets[i])
    /\ (pc = "fetch" /\ results # <<>> /\ ~page.ok)
          => results[Len(results)].minPrice = None
    /\ Decided =>
          /\ Len(results) = Len(targets)
          /\ file.doc.latest = DumpsResults(results)
          /\ IF RunPrices = {} THEN cheapest = None
             ELSE \E i \in 1..Len(results) :
                    /\ FirstMinimal(i)
                    /\ cheapest = Dict(BestKeys, Num(RunMin), results[i].vendor,
                                       results[i].date, results[i].url)

C6_Witness ==
    /\ pc = "done" /\ Len(results) = 4 /\ ~page.ok
    /\ results[1].minPrice = None
    /\ results[2].minPrice = Num(45) /\ results[3].minPrice = Num(45)
    /\ results[4].minPrice = None
    /\ cheapest.vendor = results[2].vendor /\ cheapest.date = results[2].date


\* C7: whatever the history file holds, the run does not abort: it goes on
\* as a first-ever run does, writes a new snapshot and dispatches the
\* notifications.
C7_BadHistoryNeverAborts ==
    /\ pc # "aborted"
    /\ Decided => wrote
    /\ (pc = "done" /\ cfg.EMAIL_ENABLED) => Sends("daily") = 1

\* C8: the snapshot is written before any email send is attempted; a failed
\* send leaves the written snapshot as it is, does not prevent the daily
\* snapshot email from being attempted and does not abort the run.
MailRaised(kind) == \E i \in 1..Len(mailLog) : mailLog[i] = Mail(kind, "raised")
C8_EmailFailureIsLocal ==
    /\ [](/\ pc # "aborted"
          /\ mailLog # <<>> => wrote
          /\ pc \in {"alert", "daily"} => wrote
          /\ (pc = "done" /\ MailRaised("alert")) => Sends("daily") = 1)
    /\ [][ (pc = "alert" \/ pc = "daily") => (file' = file /\ wrote') ]_vars

C8_Witness ==
    /\ pc = "done" /\ wrote
    /\ mailLog = <<Mail("alert", "raised"), Mail("daily", "raised")>>
    /\ file = saved /\ IsBestRecord(FileBest)

\* C9: a date list with an entry that is not a calendar date aborts the run
\* before any fetch: no fetch, no history write, no email.
IsCalendarDate(text) == text \in {"2025-09-01", "2025-09-02"}
Malformed(dates) ==
    \E i \in 1..Len(dates) : Strip(dates[i]) # "" /\ ~IsCalendarDate(Strip(dates[i]))
C9_MalformedDatesAbort ==
    Malformed(cfg.DATES) =>
        /\ results = <<>> /\ page = NoPage
        /\ ~wrote /\ file = NoFile
        /\ mailLog = <<>>

\* C10: the amounts a page yields, and the result the claim describes
AmountsOf(ms) == { ParseAmount(ms[i]) : i \in 1..Len(ms) }
OverThreshold(as) == { a \in as : a > JunkThreshold }
Surviving(fragAmounts, htmlAmounts) ==
    LET used == IF OverThreshold(fragAmounts) # {}
                  THEN OverThreshold(fragAmounts)
                  ELSE OverThreshold(htmlAmounts)
    IN  { a \in used : BandLow < a /\ a < BandHigh }
Described(fragAmounts, htmlAmounts) ==
    LET sv == Surviving(fragAmounts, htmlAmounts)
    IN  IF sv = {} THEN None
        ELSE Num(CHOOSE m \in sv : \A n \in sv : m <= n)
Extracted == pc = "extracted" /\ page.ok
TooSmall(a) == a <= JunkThreshold
TooLarge(a) == a >= BandHigh

\* C10 (as stated): the result is the minimum of the in-band amounts of the
\* pass used, it lies strictly between 40 and 5000, and no amount <= 40 or
\* >= 5000 influences it: the page without those amounts gives the same.
C10_NoiseNeverInfluences ==
    Extracted =>
        LET fa == AmountsOf(page.frags)
            ha == AmountsOf(page.html)
        IN  /\ price = Described(fa, ha)
            /\ price # None => (JunkThreshold < price.v /\ price.v < BandHigh)
            /\ price = Described({ a \in fa : ~TooSmall(a) /\ ~TooLarge(a) },
                                 { a \in ha : ~TooSmall(a) /\ ~TooLarge(a) })

\* C10 (amended): the result is the minimum of the in-band amounts of the
\* pass used, it lies strictly between 40 and 5000, no amount <= 40
\* influences it and no amount >= 5000 is returned (a fragment amount
\* >= 5000 still counts as a fragment amount and suppresses the fallback).
C10_ExtractedPrice ==
    Extracted =>
        LET fa == AmountsOf(page.frags)
            ha == AmountsOf(page.html)
        IN  /\ price = Described(fa, ha)
            /\ price # None => (JunkThreshold < price.v /\ price.v < BandHigh)
            /\ price = Described({ a \in fa : ~TooSmall(a) },
                                 { a \in ha : ~TooSmall(a) })
            /\ price # None => ~TooLarge(price.v)

C10_Witness ==
    /\ Extracted
    /\ \E i \in 1..Len(page.frags) : ParseAmount(page.frags[i]) = 40
    /\ \E i \in 1..Len(page.html) : ParseAmount(page.html[i]) = 12345
    /\ \E i \in 1..Len(page.html) : ParseAmount(page.html[i]) = 4999
    /\ price = Num(4999)

====
